---- MODULE Spec2Model ----
(***************************************************************************)
(* Model of main.py, the Bitget webhook relay: the Flask route webhook()   *)
(* and the core place_order(), with the exchange as the environment.       *)
(*                                                                         *)
(* Python values are modelled as follows.                                  *)
(*   str            a TLA+ string                                          *)
(*   None / str     an option: << >> is None, <<s>> is the string s        *)
(*   float          an integer n standing for the float n.0                *)
(*   dict           a record, or a sequence of <<key, value>> pairs where  *)
(*                  the insertion order matters (the order payload)        *)
(*   JSON value     [str |-> s], [num |-> n] or [null |-> TRUE]            *)
(* One invocation is in progress at a time; place_order blocks in          *)
(* requests.post, which is where the exchange (the environment) acts.      *)
(***************************************************************************)
EXTENDS Integers, Sequences, FiniteSets, TLC

VARIABLES
    API_KEY,        \* main.py:35  os.getenv("BITGET_API_KEY")
    API_SECRET,     \* main.py:36
    API_PASSPHRASE, \* main.py:37
    SUB_UID,        \* main.py:38
    pc,             \* "idle", "posting" (blocked in requests.post), "done"
    caller,         \* "none", "webhook" (the Flask route), "direct" (place_order called as a function)
    request,        \* the body of the inbound webhook request being handled
    args,           \* the arguments place_order was called with
    payloads,       \* the payload dicts built by this invocation, in order
    signs,          \* the signatures computed by this invocation, in order
    posts,          \* the calls of requests.post made by this invocation, in order
    resp,           \* what requests.post did: returned a response, or raised
    result,         \* what place_order returned
    response,       \* the HTTP response of the webhook route
    schemes,        \* the position-qualifier fields of every payload built since the process started
    nbuilt          \* how many payloads were built since the process started, counted up to MaxBuilt

vars == <<API_KEY, API_SECRET, API_PASSPHRASE, SUB_UID, pc, caller, request, args,
          payloads, signs, posts, resp, result, response, schemes, nbuilt>>

-----------------------------------------------------------------------------
(* Bounds of the model. *)

\* The clock readings int(time.time() * 1000) an invocation may see: 1..MaxClock.
MaxClock == 2

\* The payloads built since the process started are counted up to MaxBuilt.
MaxBuilt == 2

-----------------------------------------------------------------------------
(* Python helpers. *)

None == << >>

Some(s) == <<s>>

\* Python truthiness of an optional string: None and "" are falsy.
Truthy(o) == o # None /\ o[1] # ""

\* s.startswith(prefix)
StartsWith(s, prefix) ==
    Len(s) >= Len(prefix) /\ SubSeq(s, 1, Len(prefix)) = prefix

UpperLetters == "ABCDEFGHIJKLMNOPQRSTUVWXYZ"

LowerLetters == "abcdefghijklmnopqrstuvwxyz"

LowerChar(c) ==
    IF \E i \in 1..Len(UpperLetters) : SubSeq(UpperLetters, i, i) = c
    THEN LET i == CHOOSE j \in 1..Len(UpperLetters) : SubSeq(UpperLetters, j, j) = c
         IN  SubSeq(LowerLetters, i, i)
    ELSE c

\* s.lower()
RECURSIVE Lower(_)
Lower(s) ==
    IF Len(s) = 0 THEN ""
    ELSE LowerChar(SubSeq(s, 1, 1)) \o Lower(SubSeq(s, 2, Len(s)))

\* str(x) of a float with an integral value: 1.0 -> "1.0", -1.0 -> "-1.0"
StrFloat(n) == ToString(n) \o ".0"

\* str(v) of a decoded JSON value
PyStr(v) ==
    IF "str" \in DOMAIN v THEN v.str
    ELSE IF "num" \in DOMAIN v THEN ToString(v.num)
    ELSE "None"

\* The numeric strings float() accepts among the inputs of the model.
NumericStrings == {"2"}

\* float(v) of a decoded JSON value: [ok, val] or [ok, err]
PyFloat(v) ==
    IF "num" \in DOMAIN v THEN [ok |-> TRUE, val |-> v.num]
    ELSE IF "str" \in DOMAIN v
    THEN IF v.str \in NumericStrings
         THEN [ok |-> TRUE, val |-> CHOOSE n \in 0..9 : ToString(n) = v.str]
         ELSE [ok |-> FALSE, err |-> "could not convert string to float: '" \o v.str \o "'"]
    ELSE [ok |-> FALSE, err |-> "float() argument must be a string or a real number, not 'NoneType'"]

\* repr() of a list of strings: ['a', 'b']
RECURSIVE ReprItems(_)
ReprItems(seq) ==
    IF Len(seq) = 0 THEN ""
    ELSE IF Len(seq) = 1 THEN "'" \o seq[1] \o "'"
    ELSE "'" \o seq[1] \o "', " \o ReprItems(Tail(seq))

ReprList(seq) == "[" \o ReprItems(seq) \o "]"

\* json.dumps(payload, separators=(",", ":")) of a dict of strings, in insertion order
RECURSIVE DumpsItems(_)
DumpsItems(p) ==
    IF Len(p) = 0 THEN ""
    ELSE "\"" \o p[1][1] \o "\":\"" \o p[1][2] \o "\""
         \o (IF Len(p) = 1 THEN "" ELSE ",")
         \o DumpsItems(Tail(p))

Dumps(p) == "{" \o DumpsItems(p) \o "}"

-----------------------------------------------------------------------------
(* Module-level constants of main.py. *)

BITGET_BASE == "https://api.bitget.com"

ORDER_ENDPOINT == "/api/mix/v1/order/placeOrder"

\* The keys of ACTION_MAP in insertion order: list(ACTION_MAP)
ACTION_KEYS == <<"open_long", "close_long", "open_short", "close_short">>

\* Variant of ACTION_MAP: close_short sells instead of buying.
ACTION_MAP_SwappedClose ==
    [open_long   |-> [side |-> "buy",  posSide |-> "long"],
     close_long  |-> [side |-> "sell", posSide |-> "long"],
     open_short  |-> [side |-> "sell", posSide |-> "short"],
     close_short |-> [side |-> "sell", posSide |-> "short"]]

ACTION_MAP ==
    [open_long   |-> [side |-> "buy",  posSide |-> "long"],
     close_long  |-> [side |-> "sell", posSide |-> "long"],
     open_short  |-> [side |-> "sell", posSide |-> "short"],
     close_short |-> [side |-> "buy",  posSide |-> "short"]]

\* The timeout passed to requests.post, in seconds.
POST_TIMEOUT == 10

-----------------------------------------------------------------------------
(* The signer. *)

\* base64(HMAC-SHA256(key, msg)) as an ideal keyed hash: equal exactly when
\* key and message are equal.
HmacSha256B64(key, msg) == [hmac_sha256_b64 |-> TRUE, key |-> key, msg |-> msg]

\* Variant of the signer: the path is left out of the prehash.
bitget_sign_NoPath(timestamp, method, path, body) ==
    IF API_SECRET = None
    THEN [ok |-> FALSE, err |-> "'NoneType' object has no attribute 'encode'"]
    ELSE [ok |-> TRUE, val |-> HmacSha256B64(API_SECRET[1], timestamp \o method \o body)]

\* _bitget_sign: API_SECRET.encode() raises AttributeError when the secret is None.
bitget_sign(timestamp, method, path, body) ==
    IF API_SECRET = None
    THEN [ok |-> FALSE, err |-> "'NoneType' object has no attribute 'encode'"]
    ELSE [ok |-> TRUE,
          val |-> HmacSha256B64(API_SECRET[1], timestamp \o method \o path \o body)]

-----------------------------------------------------------------------------
(* place_order up to the call of requests.post. *)

UnsupportedMessage(action) ==
    "Unsupported action '" \o action \o "'. Must be one of: " \o ReprList(ACTION_KEYS)

\* Variant of the payload: closing orders also carry tradeSide.
BuildPayload_TradeSide(action, symbol, amount) ==
    LET side_info == ACTION_MAP[action]
        base == << <<"symbol", symbol>>,
                   <<"marginCoin", "USDT">>,
                   <<"size", StrFloat(amount)>>,
                   <<"side", side_info.side>>,
                   <<"orderType", "market">>,
                   <<"posSide", side_info.posSide>> >>
        more == IF action \in {"close_long", "close_short"}
                THEN <<  <<"tradeSide", "close">> >> ELSE << >>
    IN  base \o more \o (IF Truthy(SUB_UID) THEN << <<"subUid", SUB_UID[1]>> >> ELSE << >>)

\* Lines 76-86: the payload dict, with subUid added when SUB_UID is truthy.
BuildPayload(action, symbol, amount) ==
    LET side_info == ACTION_MAP[action]
        base == << <<"symbol", symbol>>,
                   <<"marginCoin", "USDT">>,
                   <<"size", StrFloat(amount)>>,
                   <<"side", side_info.side>>,
                   <<"orderType", "market">>,
                   <<"posSide", side_info.posSide>> >>
    IN  base \o (IF Truthy(SUB_UID) THEN << <<"subUid", SUB_UID[1]>> >> ELSE << >>)

BuildHeaders(signature, ts) ==
    [ACCESS_KEY        |-> API_KEY,
     ACCESS_SIGN       |-> signature,
     ACCESS_TIMESTAMP  |-> ts,
     ACCESS_PASSPHRASE |-> API_PASSPHRASE,
     Content_Type      |-> "application/json"]

\* Lines 73-101: what place_order has done when it calls requests.post, or when
\* an exception sends it to its handler before that. now is the clock reading.
Prepare(action, symbol, amount, now) ==
    IF action \notin DOMAIN ACTION_MAP
    THEN [raised |-> TRUE, err |-> UnsupportedMessage(action),
          payloads |-> << >>, signs |-> << >>, posts |-> << >>]
    ELSE LET payload == BuildPayload(action, symbol, amount)
             body == Dumps(payload)
             ts == ToString(now)
             signature == bitget_sign(ts, "POST", ORDER_ENDPOINT, body)
         IN  IF ~signature.ok
             THEN [raised |-> TRUE, err |-> signature.err,
                   payloads |-> <<payload>>, signs |-> << >>, posts |-> << >>]
             ELSE [raised |-> FALSE, err |-> "",
                   payloads |-> <<payload>>, signs |-> <<signature.val>>,
                   posts |-> << [url |-> BITGET_BASE \o ORDER_ENDPOINT,
                                 headers |-> BuildHeaders(signature.val, ts),
                                 data |-> body,
                                 timeout |-> POST_TIMEOUT] >>]

-----------------------------------------------------------------------------
(* place_order from the return of requests.post on. *)

\* The texts of the model that are JSON documents, with the value they decode to.
JsonDocuments == ("{\"code\":\"00000\"}" :> [code |-> "00000"])

\* resp.json(): raises JSONDecodeError when the text is no JSON document.
JsonLoads(text) ==
    IF text \in DOMAIN JsonDocuments
    THEN [ok |-> TRUE, val |-> JsonDocuments[text]]
    ELSE [ok |-> FALSE, err |-> "Expecting value: line 1 column 1 (char 0)"]

\* Variant of the return: a non-2xx status raises, as resp.raise_for_status() would.
Normalize_StatusChecked(r) ==
    IF r.status_code \notin 200..299
    THEN [ok |-> FALSE, err |-> ToString(r.status_code) \o " Error for url"]
    ELSE IF StartsWith(IF r.content_type = None THEN "" ELSE r.content_type[1],
                       "application/json")
    THEN JsonLoads(r.text)
    ELSE [ok |-> TRUE, val |-> [raw |-> r.text]]

\* Variant of the return: the body is parsed whatever the content type.
Normalize_AlwaysParse(r) ==
    LET parsed == JsonLoads(r.text)
    IN  IF parsed.ok THEN parsed ELSE [ok |-> TRUE, val |-> [raw |-> r.text]]

\* Line 104: resp.json() if resp.headers.get("Content-Type", "").startswith(
\* "application/json") else {"raw": resp.text}. The status code is not read.
Normalize(r) ==
    IF StartsWith(IF r.content_type = None THEN "" ELSE r.content_type[1],
                  "application/json")
    THEN JsonLoads(r.text)
    ELSE [ok |-> TRUE, val |-> [raw |-> r.text]]

\* Variant of the handler: the POST is issued a second time.
Handler_Retry(err, calls) ==
    [result |-> [error |-> err], posts |-> calls \o calls]

\* Variant of the handler: the exception is raised again.
Handler_Reraise(err, calls) ==
    [result |-> [uncaught |-> err], posts |-> calls]

\* Lines 106-109: except Exception as err: return {"error": str(err)}.
\* calls are the calls of requests.post made so far; the handler makes none.
Handler(err, calls) ==
    [result |-> [error |-> err], posts |-> calls]

\* str(err) of the exceptions requests.post raises.
PostExceptions ==
    ("Timeout" :> "HTTPSConnectionPool(host='api.bitget.com', port=443): Read timed out. (read timeout=10)")
    @@ ("ConnectionError" :> "HTTPSConnectionPool(host='api.bitget.com', port=443): Max retries exceeded")

-----------------------------------------------------------------------------
(* The Flask route. *)

required == {"action", "symbol", "amount"}

MissingMessage == "Missing fields -- required {'action', 'symbol', 'amount'}"

\* Lines 117-126 and 130-133: request.get_json(force=True), the required-fields
\* check and the conversion of the three arguments; an exception raised on the
\* way is answered with status 500.
Validate(req) ==
    IF req.kind = "invalid"
    THEN [ok |-> FALSE,
          response |-> [body |-> [error |-> "400 Bad Request: Failed to decode JSON object"],
                        status |-> 500]]
    ELSE IF req.kind = "null"
    THEN [ok |-> FALSE,
          response |-> [body |-> [error |-> "'NoneType' object is not iterable"],
                        status |-> 500]]
    ELSE IF req.kind = "list"
    THEN IF ~(required \subseteq {req.items[i] : i \in 1..Len(req.items)})
         THEN [ok |-> FALSE,
               response |-> [body |-> [error |-> MissingMessage], status |-> 400]]
         ELSE [ok |-> FALSE,
               response |-> [body |-> [error |-> "list indices must be integers or slices, not str"],
                             status |-> 500]]
    ELSE IF ~(required \subseteq DOMAIN req.members)
    THEN [ok |-> FALSE,
          response |-> [body |-> [error |-> MissingMessage], status |-> 400]]
    ELSE LET amount == PyFloat(req.members["amount"])
         IN  IF ~amount.ok
             THEN [ok |-> FALSE,
                   response |-> [body |-> [error |-> amount.err], status |-> 500]]
             ELSE [ok |-> TRUE,
                   action |-> Lower(PyStr(req.members["action"])),
                   symbol |-> req.members["symbol"].str,
                   amount |-> amount.val]

\* Lines 127-133: return jsonify(result), with the default status 200; an
\* exception escaping place_order would be answered with status 500.
Answer(res) ==
    IF "uncaught" \in DOMAIN res
    THEN [body |-> [error |-> res.uncaught], status |-> 500]
    ELSE [body |-> res, status |-> 200]

-----------------------------------------------------------------------------
(* The inputs of the model. *)

\* What os.getenv returns for a variable: None when unset, else its value,
\* which may be empty. An empty key or passphrase takes the same path as a set one.
EnvValues == {None, Some(""), Some("v")}

SetOrUnset == {None, Some("v")}

ActionStrings ==
    {"open_long", "close_long", "open_short", "close_short", "OPEN_LONG", "sideways"}

SymbolStrings == {"BTCUSDT", ""}

Amounts == {-1, 0, 1}

FieldValues(k) ==
    IF k = "action" THEN {[str |-> a] : a \in ActionStrings}
    ELSE IF k = "symbol" THEN {[str |-> y] : y \in SymbolStrings}
    ELSE {[num |-> n] : n \in Amounts} \cup {[str |-> "abc"], [str |-> "2"], [null |-> TRUE]}

JsonValues == UNION {FieldValues(k) : k \in required}

\* The JSON objects of the model: any subset of the three fields.
Objects ==
    UNION {{o \in [K -> JsonValues] : \A k \in K : o[k] \in FieldValues(k)} :
           K \in SUBSET required}

\* The bodies of the inbound POST: not JSON, null, a list, an object.
Requests ==
    {[kind |-> "invalid"], [kind |-> "null"]}
    \cup {[kind |-> "list", items |-> l] : l \in {<< >>, <<"action", "symbol", "amount">>}}
    \cup {[kind |-> "object", members |-> o] : o \in Objects}

\* What the exchange may answer: any status, content type header and text.
Responses ==
    [status_code : {200, 500},
     content_type : {None, Some("application/json"), Some("application/json; charset=utf-8"),
                     Some("text/html"), Some("Application/JSON")},
     text : {"{\"code\":\"00000\"}", "<html>Bad Gateway</html>"}]

NoRequest == [kind |-> "none"]

NoArgs == [called |-> FALSE]

NoResp == [kind |-> "none"]

NoResult == [pending |-> TRUE]

NoResponse == [pending |-> TRUE]

\* The keys of a payload dict.
Keys(p) == {p[i][1] : i \in 1..Len(p)}

\* The position-qualifier fields a payload carries.
Scheme(p) == Keys(p) \cap {"posSide", "tradeSide"}

-----------------------------------------------------------------------------
(* The state machine. *)

Init ==
    /\ API_KEY \in SetOrUnset
    /\ API_SECRET \in EnvValues
    /\ API_PASSPHRASE \in SetOrUnset
    /\ SUB_UID \in EnvValues
    /\ pc = "idle"
    /\ caller = "none"
    /\ request = NoRequest
    /\ args = NoArgs
    /\ payloads = << >>
    /\ signs = << >>
    /\ posts = << >>
    /\ resp = NoResp
    /\ result = NoResult
    /\ response = NoResponse
    /\ schemes = {}
    /\ nbuilt = 0

\* place_order(action, symbol, amount) entered by who: it runs to the call of
\* requests.post and blocks there, or to its return when an exception is raised.
Enter(who, action, symbol, amount, now) ==
    LET p == Prepare(action, symbol, amount, now)
        h == Handler(p.err, p.posts)
    IN  /\ caller' = who
        /\ args' = [called |-> TRUE, action |-> action, symbol |-> symbol, amount |-> amount]
        /\ payloads' = p.payloads
        /\ signs' = p.signs
        /\ schemes' = schemes \cup {Scheme(p.payloads[i]) : i \in 1..Len(p.payloads)}
        /\ nbuilt' = IF nbuilt + Len(p.payloads) <= MaxBuilt THEN nbuilt + Len(p.payloads) ELSE MaxBuilt
        /\ resp' = NoResp
        /\ IF p.raised
           THEN /\ posts' = h.posts
                /\ result' = h.result
                /\ pc' = "done"
                /\ response' = IF who = "webhook" THEN Answer(h.result) ELSE NoResponse
           ELSE /\ posts' = p.posts
                /\ result' = NoResult
                /\ pc' = "posting"
                /\ response' = NoResponse

\* POST /webhook arrives with body req.
webhook(req, now) ==
    /\ pc = "idle"
    /\ request' = req
    /\ LET v == Validate(req)
       IN  IF v.ok
           THEN Enter("webhook", v.action, v.symbol, v.amount, now)
           ELSE /\ caller' = "webhook"
                /\ args' = NoArgs
                /\ payloads' = << >>
                /\ signs' = << >>
                /\ posts' = << >>
                /\ resp' = NoResp
                /\ result' = NoResult
                /\ response' = v.response
                /\ pc' = "done"
                /\ UNCHANGED <<schemes, nbuilt>>
    /\ UNCHANGED <<API_KEY, API_SECRET, API_PASSPHRASE, SUB_UID>>

\* place_order called as a function, with arguments of its declared types.
place_order(action, symbol, amount, now) ==
    /\ pc = "idle"
    /\ request' = NoRequest
    /\ Enter("direct", action, symbol, amount, now)
    /\ UNCHANGED <<API_KEY, API_SECRET, API_PASSPHRASE, SUB_UID>>

\* The rest of place_order once requests.post has returned r or raised e.
Leave(outcome, normal) ==
    LET h == IF normal.ok THEN [result |-> normal.val, posts |-> posts]
             ELSE Handler(normal.err, posts)
    IN  /\ resp' = outcome
        /\ posts' = h.posts
        /\ result' = h.result
        /\ response' = IF caller = "webhook" THEN Answer(h.result) ELSE NoResponse
        /\ pc' = "done"
        /\ UNCHANGED <<API_KEY, API_SECRET, API_PASSPHRASE, SUB_UID, caller, request,
                       args, payloads, signs, schemes, nbuilt>>

\* requests.post returns the exchange's response r.
post_returns(r) ==
    /\ pc = "posting"
    /\ Leave([kind |-> "response", r |-> r], Normalize(r))

\* requests.post raises: a timeout or a transport failure.
post_raises(e) ==
    /\ pc = "posting"
    /\ Leave([kind |-> "exception", e |-> e], [ok |-> FALSE, err |-> PostExceptions[e]])

\* The invocation is over: its locals are dropped and the process waits for the
\* next call. Only the module-level state stays.
finish ==
    /\ pc = "done"
    /\ pc' = "idle"
    /\ caller' = "none"
    /\ request' = NoRequest
    /\ args' = NoArgs
    /\ payloads' = << >>
    /\ signs' = << >>
    /\ posts' = << >>
    /\ resp' = NoResp
    /\ result' = NoResult
    /\ response' = NoResponse
    /\ UNCHANGED <<API_KEY, API_SECRET, API_PASSPHRASE, SUB_UID, schemes, nbuilt>>

Next ==
    \/ \E req \in Requests, now \in 1..MaxClock : webhook(req, now)
    \/ \E a \in ActionStrings, y \in SymbolStrings, n \in Amounts, now \in 1..MaxClock :
          place_order(a, y, n, now)
    \/ \E r \in Responses : post_returns(r)
    \/ \E e \in DOMAIN PostExceptions : post_raises(e)
    \/ finish

Spec == Init /\ [][Next]_vars

-----------------------------------------------------------------------------
(* Vocabulary of the properties. *)

\* The four actions of the enumeration with the (side, posSide) each must get.
MappingTable ==
    {<<"open_long", "buy", "long">>, <<"close_long", "sell", "long">>,
     <<"open_short", "sell", "short">>, <<"close_short", "buy", "short">>}

Enumeration == {row[1] : row \in MappingTable}

\* The string s has the substring sub.
Contains(s, sub) ==
    \E i \in 1..(Len(s) - Len(sub) + 1) : SubSeq(s, i, i + Len(sub) - 1) = sub

\* The value a payload dict holds under key k.
Get(p, k) == p[CHOOSE i \in 1..Len(p) : p[i][1] = k][2]

IsError(res) == "error" \in DOMAIN res

\* The response declares JSON, by the test of line 104.
DeclaresJson(r) ==
    r.content_type # None /\ StartsWith(r.content_type[1], "application/json")

Parsable(r) == r.text \in DOMAIN JsonDocuments

\* place_order returned the exchange's parsed body.
ReturnedParsed(r) == Parsable(r) /\ result = JsonDocuments[r.text]

\* A structured result: the exchange's parsed JSON, {"raw": text} or {"error": message}.
Structured(res) ==
    \/ IsError(res)
    \/ DOMAIN res = {"raw"}
    \/ \E t \in DOMAIN JsonDocuments : res = JsonDocuments[t]

\* The webhook request violates an invariant of TradeInstruction.
ViolatesInstruction(req) ==
    /\ req.kind = "object"
    /\ \/ ~(required \subseteq DOMAIN req.members)
       \/ Lower(PyStr(req.members["action"])) \notin Enumeration
       \/ req.members["symbol"].str = ""
       \/ ~PyFloat(req.members["amount"]).ok
       \/ PyFloat(req.members["amount"]).val <= 0

ValidArguments ==
    /\ args.called
    /\ args.action \in Enumeration
    /\ args.symbol # ""
    /\ args.amount > 0

AllCredentials == API_KEY # None /\ API_SECRET # None /\ API_PASSPHRASE # None

-----------------------------------------------------------------------------
(* C1 *)

\* C1: for each of the four actions place_order builds a payload whose
\* (side, posSide) is the pair of the table; for any other action it returns
\* an error that names the value and the four valid actions, and it builds no
\* payload and calls requests.post never.
C1_ActionMapping ==
    args.called =>
        /\ \A row \in MappingTable :
              args.action = row[1] =>
                  /\ Len(payloads) = 1
                  /\ Get(payloads[1], "side") = row[2]
                  /\ Get(payloads[1], "posSide") = row[3]
        /\ args.action \notin Enumeration =>
              /\ pc = "done"
              /\ IsError(result)
              /\ Contains(result.error, "'" \o args.action \o "'")
              /\ \A row \in MappingTable : Contains(result.error, "'" \o row[1] \o "'")
              /\ payloads = << >>
              /\ posts = << >>

C1_Witness ==
    /\ args.called
    /\ args.action = "close_short"
    /\ pc = "posting"
    /\ Len(posts) = 1

-----------------------------------------------------------------------------
(* C2 *)

\* C2: a webhook request that violates an invariant of TradeInstruction (a
\* missing field, an action outside the enumeration, an empty symbol, an amount
\* that is not positive) ends in an error answer, and no signature is computed
\* and requests.post is not called while it is handled.
C2_InvalidNeverReachesExchange ==
    (caller = "webhook" /\ ViolatesInstruction(request)) =>
        /\ signs = << >>
        /\ posts = << >>
        /\ pc = "done"
        /\ IsError(response.body)

-----------------------------------------------------------------------------
(* C3 *)

\* C3: when any one of API key, API secret and passphrase is None, a call of
\* place_order returns an error without computing a signature and without
\* calling requests.post.
C3_MissingCredentialFailsFast ==
    (args.called /\ ~AllCredentials) =>
        /\ signs = << >>
        /\ posts = << >>
        /\ pc = "done"
        /\ IsError(result)

-----------------------------------------------------------------------------
(* C4 *)

\* C4: an invocation of place_order calls requests.post at most once; when the
\* call raises (timeout, transport failure) the invocation returns an error
\* and has made exactly one call; valid arguments with all credentials present
\* make exactly one call.
C4_AtMostOnePost ==
    /\ Len(posts) <= 1
    /\ resp.kind = "exception" => (pc = "done" /\ IsError(result) /\ Len(posts) = 1)
    /\ (ValidArguments /\ AllCredentials) => Len(posts) = 1

C4_Witness ==
    /\ pc = "done"
    /\ resp.kind = "exception"
    /\ resp.e = "Timeout"
    /\ ValidArguments
    /\ AllCredentials

-----------------------------------------------------------------------------
(* C5 *)

\* C5: place_order lets no exception escape: whenever it has returned, its
\* result is the exchange's parsed JSON, {"raw": text} or {"error": message},
\* and the webhook has answered with that result as its body.
C5_NoFailureEscapes ==
    /\ "uncaught" \notin DOMAIN result
    /\ (pc = "done" /\ args.called) => Structured(result)
    /\ (pc = "done" /\ caller = "webhook") =>
          /\ DOMAIN response = {"body", "status"}
          /\ Structured(response.body)
          /\ args.called => response.body = result

C5_Witness ==
    /\ pc = "done"
    /\ caller = "webhook"
    /\ resp.kind = "response"
    /\ DeclaresJson(resp.r)
    /\ ~Parsable(resp.r)
    /\ IsError(result)

-----------------------------------------------------------------------------
(* C6 *)

\* C6: in every call of requests.post the ACCESS-SIGN header is the keyed hash,
\* under the configured secret, of ACCESS-TIMESTAMP || "POST" || order path ||
\* the data transmitted, and the data is the one serialization of the payload,
\* with subUid in it when SUB_UID is set.
C6_SignatureCoversWire ==
    \A i \in 1..Len(posts) :
        /\ API_SECRET # None
        /\ posts[i].headers.ACCESS_SIGN =
              HmacSha256B64(API_SECRET[1],
                            posts[i].headers.ACCESS_TIMESTAMP \o "POST"
                                \o "/api/mix/v1/order/placeOrder" \o posts[i].data)
        /\ signs = <<posts[i].headers.ACCESS_SIGN>>
        /\ posts[i].data = Dumps(payloads[1])
        /\ Truthy(SUB_UID) =>
              Contains(posts[i].data, ",\"subUid\":\"" \o SUB_UID[1] \o "\"}")

C6_Witness ==
    /\ Len(posts) = 1
    /\ Truthy(SUB_UID)
    /\ posts[1].headers.ACCESS_TIMESTAMP = ToString(MaxClock)

-----------------------------------------------------------------------------
(* C7 *)

\* C7: the webhook answers 200 only when the order submission succeeded; an
\* {"error": message} body comes with status 400 or 500, and an action outside
\* the enumeration with status 400.
C7_StatusReflectsOutcome ==
    (pc = "done" /\ caller = "webhook") =>
        /\ response.status = 200 => ~IsError(response.body)
        /\ IsError(response.body) => response.status \in {400, 500}
        /\ (args.called /\ args.action \notin Enumeration) => response.status = 400

-----------------------------------------------------------------------------
(* C8 *)

\* C8 as claimed: a non-2xx status, and a body that does not parse although
\* the content type declares JSON, each make place_order return an error,
\* after exactly one call of requests.post.
C8_Original ==
    (/\ pc = "done"
     /\ resp.kind = "response"
     /\ \/ resp.r.status_code \notin 200..299
        \/ (DeclaresJson(resp.r) /\ ~Parsable(resp.r)))
    => (IsError(result) /\ Len(posts) = 1)

\* C8 as amended: a body that does not parse although the content type
\* declares JSON makes place_order return an error, after exactly one call of
\* requests.post; the status code is not read: a non-2xx response yields the
\* parsed body or {"raw": text} exactly as a 2xx response does.
C8_UnparsableIsErrorStatusIgnored ==
    (pc = "done" /\ resp.kind = "response") =>
        /\ Len(posts) = 1
        /\ (DeclaresJson(resp.r) /\ ~Parsable(resp.r)) => IsError(result)
        /\ (DeclaresJson(resp.r) /\ Parsable(resp.r)) => result = JsonDocuments[resp.r.text]
        /\ ~DeclaresJson(resp.r) => result = [raw |-> resp.r.text]

C8_Witness ==
    /\ pc = "done"
    /\ resp.kind = "response"
    /\ resp.r.status_code = 500
    /\ result = [raw |-> "<html>Bad Gateway</html>"]

-----------------------------------------------------------------------------
(* C9 *)

\* C9: every payload built carries exactly one of posSide and tradeSide, with
\* marginCoin "USDT" and orderType "market", and all payloads built since the
\* process started carry the same one.
C9_OneQualifierScheme ==
    /\ \A i \in 1..Len(payloads) :
          /\ Cardinality(Scheme(payloads[i])) = 1
          /\ Scheme(payloads[i]) \in schemes
          /\ Get(payloads[i], "marginCoin") = "USDT"
          /\ Get(payloads[i], "orderType") = "market"
    /\ Cardinality(schemes) <= 1
    /\ nbuilt > 0 => Cardinality(schemes) = 1

C9_Witness ==
    /\ nbuilt = 2
    /\ Len(payloads) = 1
    /\ args.action = "close_long"

-----------------------------------------------------------------------------
(* C10 *)

\* C10 as claimed: when the exchange answers, place_order returns the parsed
\* body if and only if the content type declares JSON, and {"raw": text} for
\* every other content type or none.
C10_Original ==
    (pc = "done" /\ resp.kind = "response") =>
        /\ ReturnedParsed(resp.r) <=> DeclaresJson(resp.r)
        /\ ~DeclaresJson(resp.r) => result = [raw |-> resp.r.text]

\* C10 as amended: place_order returns the parsed body if and only if the
\* Content-Type header starts with "application/json" and the body parses;
\* with such a header and a body that does not parse it returns an error; for
\* every other content type or none it returns {"raw": text}, never an error.
C10_ParsedIffDeclaredAndParsable ==
    (pc = "done" /\ resp.kind = "response") =>
        /\ ReturnedParsed(resp.r) <=> (DeclaresJson(resp.r) /\ Parsable(resp.r))
        /\ (DeclaresJson(resp.r) /\ ~Parsable(resp.r)) => IsError(result)
        /\ ~DeclaresJson(resp.r) => (result = [raw |-> resp.r.text] /\ ~IsError(result))

C10_Witness ==
    /\ pc = "done"
    /\ resp.kind = "response"
    /\ resp.r.content_type = Some("text/html")
    /\ Parsable(resp.r)
    /\ DOMAIN result = {"raw"}

====
